---- MODULE Spec2Model ----
(***************************************************************************)
(* A model of the string interner of src/src/lib.rs and of its symbol      *)
(* encodings of src/src/symbol.rs.                                         *)
(*                                                                         *)
(* Texts are compared by content only (PinnedStr hashes and compares the   *)
(* str it points to), so a text is modelled by a number that stands for    *)
(* its content.  A symbol is modelled by the value of its NonZero field.   *)
(* An Option is a set with at most one element.                            *)
(*                                                                         *)
(* The integer widths are scaled down: U16Bits, U32Bits and UsizeBits      *)
(* stand for the 16, 32 and 64 bits of u16, u32 and usize, in the same     *)
(* order, and all arithmetic is done modulo the scaled width.              *)
(***************************************************************************)
EXTENDS Integers, Sequences, FiniteSets

\* Number of distinct text contents a caller may pass.
NumTexts == 4
\* Scaled width of u16 (the base type of SymbolU16).
U16Bits == 1
\* Scaled width of u32 (the base type of SymbolU32).
U32Bits == 2
\* Scaled width of usize (the base type of SymbolUsize and of every index).
UsizeBits == 3

\* Number of distinct text contents in the specifications that hold a second
\* structure beside the interner (capacities, a clone, an input, an iterator).
NumFewTexts == 3
\* Number of distinct text contents in the specification of two interners.
NumPairTexts == 2
\* Largest capacity asked of with_capacity and largest `additional` asked of
\* reserve.
MaxReserve == 2

\* Largest number of items of an iterator given to from_iter and extend.
MaxInput == 3

VARIABLES
    variant,    \* the symbol type S the interner is instantiated with
    build,      \* how the build treats `index as $base_ty + 1` when it overflows
    values,     \* StringInterner::values, the Vec<Pin<Box<str>>>
    map,        \* StringInterner::map, from the PinnedStr of a box to its symbol
    issued,     \* history: the <<text, symbol>> pairs get_or_intern has returned
    last,       \* history: the last call on the interner and what it returned
    pc,         \* position of the symbol round-trip program
    index,      \* the usize given to try_from_usize
    symbol,     \* the result of try_from_usize
    back,       \* the result of to_usize on that symbol
    cap,        \* the capacities of values and of map (tracked under CapSpec
                \* and PairSpec)
    other,      \* a second interner: a clone, or one built by from_iter
    input,      \* the items of an iterator given to from_iter and extend
    iter        \* an iterator over the interner

vars == <<variant, build, values, map, issued, last, pc, index, symbol, back,
          cap, other, input, iter>>

internerVars == <<values, map, issued, last>>
symbolVars == <<pc, index, symbol, back>>
extraVars == <<cap, other, input, iter>>

----------------------------------------------------------------------------
\* Option<T>

None == {}
Some(x) == {x}
unwrap(o) == CHOOSE x \in o : TRUE

\* The outcome of a call: it returned val, or it panicked.
Returned(v) == [panicked |-> FALSE, val |-> v]
Panicked == [panicked |-> TRUE, val |-> None]

----------------------------------------------------------------------------
\* Integer types

RECURSIVE Pow2(_)
Pow2(n) == IF n = 0 THEN 1 ELSE 2 * Pow2(n - 1)

\* usize::MAX
USIZE_MAX == Pow2(UsizeBits) - 1

\* All values of usize.
Usize == 0 .. USIZE_MAX

\* The three instances of gen_symbol_for!.
Variants == {"SymbolU16", "SymbolU32", "SymbolUsize"}

\* The width of $base_ty of each instance.
BaseBits(S) ==
    CASE S = "SymbolU16" -> U16Bits
      [] S = "SymbolU32" -> U32Bits
      [] S = "SymbolUsize" -> UsizeBits

\* <$base_ty>::MAX
BaseMax(S) == Pow2(BaseBits(S)) - 1

\* What the build does where `index as $base_ty + 1` overflows:
\*   overflow_checks  the addition panics (the debug profile);
\*   niche_none       the sum wraps to 0, new_unchecked(0) is undefined
\*                    behaviour, and the Option holding the zero reads as
\*                    None, which is its bit pattern;
\*   zero_symbol      the sum wraps to 0 and the compiler, entitled to take
\*                    the value for non-zero, hands the Option on as Some.
Builds == {"overflow_checks", "niche_none", "zero_symbol"}

----------------------------------------------------------------------------
\* symbol.rs

\* Symbol::try_from_usize of gen_symbol_for!.
try_from_usize(S, b, i) ==
    IF i < USIZE_MAX
    THEN LET truncated == i % Pow2(BaseBits(S))   \* index as $base_ty
             sum == truncated + 1
         IN IF sum <= BaseMax(S)
            THEN Returned(Some(sum))
            ELSE CASE b = "overflow_checks" -> Panicked
                   [] b = "niche_none" -> Returned(None)
                   [] b = "zero_symbol" -> Returned(Some(0))
    ELSE Returned(None)

\* Symbol::to_usize of gen_symbol_for!: self.value.get() as usize - 1.
to_usize(S, b, s) ==
    IF s >= 1
    THEN Returned(s - 1)
    ELSE IF b = "overflow_checks"
         THEN Panicked
         ELSE Returned((s + Pow2(UsizeBits) - 1) % Pow2(UsizeBits))

\* expect_valid_symbol: S::try_from_usize(index).expect(..).
expect_valid_symbol(S, b, i) ==
    LET r == try_from_usize(S, b, i)
    IN IF r.panicked \/ r.val = None
       THEN Panicked
       ELSE Returned(unwrap(r.val))

\* The symbols a caller can make with try_from_usize, for each instance and
\* build.
Symbols ==
    [S \in Variants, b \in Builds |->
        { unwrap(try_from_usize(S, b, i).val) :
            i \in { j \in Usize : try_from_usize(S, b, j).val # None } }]

----------------------------------------------------------------------------
\* lib.rs

Texts == 1 .. NumTexts

\* PinnedStr::as_str: the str the box at position p of values holds.
as_str(vals, p) == vals[p]

\* A lookup that compares PinnedStr keys by address: the key made from the
\* caller's str is at no stored address, so it finds nothing.
map_get_by_address(m, vals, val) == None

\* HashMap::get with a PinnedStr key: keys hash and compare by content.
map_get(m, vals, val) ==
    { m[p] : p \in { q \in DOMAIN m : as_str(vals, q) = val } }

\* StringInterner::len
len(vals) == Len(vals)

\* StringInterner::make_symbol.  S::from_usize is the conversion that
\* panics on an invalid index, expect_valid_symbol.
make_symbol(S, b, vals) == expect_valid_symbol(S, b, len(vals))

\* StringInterner::intern: the new values and map, and the symbol returned;
\* a panic in make_symbol leaves both as they were.
intern(S, b, vals, m, new_val) ==
    LET new_id == make_symbol(S, b, vals)
    IN IF new_id.panicked
       THEN [values |-> vals, map |-> m, ret |-> Panicked]
       ELSE LET pushed == Append(vals, new_val)
                new_ref == Len(pushed)
            IN [values |-> pushed,
                map |-> [p \in DOMAIN m \cup {new_ref} |->
                            IF p = new_ref THEN new_id.val ELSE m[p]],
                ret |-> Returned(Some(new_id.val))]

\* StringInterner::get_or_intern: the new values and map, the symbol
\* returned, and whether the text was found.
get_or_intern(S, b, vals, m, val) ==
    LET found == map_get(m, vals, val)
        r == IF found # None
             THEN [values |-> vals, map |-> m, ret |-> Returned(found)]
             ELSE intern(S, b, vals, m, val)
    IN [values |-> r.values, map |-> r.map, ret |-> r.ret,
        hit |-> found # None]

\* A resolve that bounds-checks the symbol's stored value, not its index.
resolve_checks_value(S, b, vals, s) ==
    LET i == to_usize(S, b, s)
    IN IF i.panicked
       THEN Panicked
       ELSE IF s < Len(vals) /\ i.val < Len(vals)
            THEN Returned(Some(vals[i.val + 1]))
            ELSE Returned(None)

\* StringInterner::resolve
resolve(S, b, vals, s) ==
    LET i == to_usize(S, b, s)
    IN IF i.panicked
       THEN Panicked
       ELSE IF i.val < Len(vals)
            THEN Returned(Some(vals[i.val + 1]))
            ELSE Returned(None)

\* No call yet on a new interner.
NoCall ==
    [op |-> "new", arg |-> 0, ret |-> None, hit |-> FALSE, panicked |-> FALSE]

\* HashMap::new() and Vec::new() allocate nothing.
NoCapacity == [values |-> 0, map |-> 0]

\* No second interner, no input, no iterator.
NoOther ==
    [state |-> "none", values |-> <<>>, map |-> <<>>, fresh |-> FALSE]
NoInput == [items |-> <<>>, pos |-> 0, done |-> 0]
NoIter ==
    [kind |-> "none", pos |-> 0, yielded |-> <<>>,
     ended |-> FALSE, panicked |-> FALSE]

ExtraInit ==
    /\ cap = NoCapacity
    /\ other = NoOther
    /\ input = NoInput
    /\ iter = NoIter

\* StringInterner::new
Init ==
    /\ variant \in Variants
    /\ build \in Builds
    /\ values = <<>>
    /\ map = <<>>
    /\ issued = {}
    /\ last = NoCall
    /\ pc = "idle"
    /\ index = 0
    /\ symbol = None
    /\ back = None
    /\ ExtraInit

\* StringInterner::get_or_intern
InternCall(val) ==
    LET r == get_or_intern(variant, build, values, map, val)
    IN /\ values' = r.values
       /\ map' = r.map
       /\ issued' = IF r.ret.panicked
                    THEN issued
                    ELSE issued \cup {<<val, unwrap(r.ret.val)>>}
       /\ last' = [op |-> "get_or_intern", arg |-> val, ret |-> r.ret.val,
                   hit |-> r.hit, panicked |-> r.ret.panicked]

\* StringInterner::get_or_intern, capacities not tracked
GetOrIntern(val) ==
    /\ InternCall(val)
    /\ UNCHANGED <<variant, build, symbolVars, extraVars>>

\* StringInterner::get: what the caller may see.  The Option<S> returned for
\* a stored symbol whose value is zero has the bit pattern of None: the
\* caller may see either.
get(m, vals, val) ==
    LET found == map_get(m, vals, val)
    IN IF found = Some(0) THEN {None, found} ELSE {found}

\* StringInterner::get
Get(val) ==
    LET found == map_get(map, values, val)
    IN /\ \E seen \in get(map, values, val) :
            last' = [op |-> "get", arg |-> val, ret |-> seen,
                     hit |-> found # None, panicked |-> FALSE]
       /\ UNCHANGED <<variant, build, values, map, issued, symbolVars, extraVars>>

\* The symbols a caller can hold: made by try_from_usize or returned by
\* this interner.
Held == Symbols[variant, build] \cup { p[2] : p \in issued }

\* StringInterner::resolve
Resolve(s) ==
    LET r == resolve(variant, build, values, s)
    IN /\ last' = [op |-> "resolve", arg |-> s, ret |-> r.val,
                   hit |-> r.val # None, panicked |-> r.panicked]
       /\ UNCHANGED <<variant, build, values, map, issued, symbolVars, extraVars>>

Next ==
    \/ \E val \in Texts : GetOrIntern(val)
    \/ \E val \in Texts : Get(val)
    \/ \E s \in Held : Resolve(s)

Spec == Init /\ [][Next]_vars

----------------------------------------------------------------------------
\* The symbol round trip: a caller converts an index with try_from_usize
\* and, given a symbol, converts it back with to_usize.

SymInit ==
    /\ variant \in Variants
    /\ build \in Builds
    /\ values = <<>>
    /\ map = <<>>
    /\ issued = {}
    /\ last = NoCall
    /\ pc = "start"
    /\ index \in Usize
    /\ symbol = None
    /\ back = None
    /\ ExtraInit

TryFromUsize ==
    /\ pc = "start"
    /\ LET r == try_from_usize(variant, build, index)
       IN /\ symbol' = r.val
          /\ pc' = IF r.panicked THEN "panicked" ELSE "converted"
    /\ UNCHANGED <<variant, build, internerVars, index, back, extraVars>>

ToUsize ==
    /\ pc = "converted"
    /\ symbol # None
    /\ LET r == to_usize(variant, build, unwrap(symbol))
       IN /\ back' = IF r.panicked THEN None ELSE Some(r.val)
          /\ pc' = IF r.panicked THEN "panicked" ELSE "done"
    /\ UNCHANGED <<variant, build, internerVars, index, symbol, extraVars>>

SymNext == TryFromUsize \/ ToUsize

SymSpec == SymInit /\ [][SymNext]_vars

----------------------------------------------------------------------------
\* Capacity management: the constructors, reserve, shrink_to_fit and
\* capacity, with the capacities of values and of map tracked.  Vec and
\* HashMap promise a capacity of at least what is asked; what they give
\* beyond that is their choice.

FewTexts == 1 .. NumFewTexts

\* The largest capacity an allocation gives in the model.
MaxCap == NumFewTexts + MaxReserve

\* The capacities an allocation for at least n elements may give.
AtLeast(n) == n .. MaxCap

\* Vec::push / HashMap::insert: the capacity once the collection holds n
\* elements; it reallocates only when full.
grow(c, n) == IF c >= n THEN {c} ELSE AtLeast(n)

\* Vec::reserve / HashMap::reserve: room for `additional` more than the n
\* elements held; does nothing if the capacity is already sufficient.
reserve_more(c, n, additional) ==
    IF c >= n + additional THEN {c} ELSE AtLeast(n + additional)

\* Vec::shrink_to_fit / HashMap::shrink_to_fit: as close to n as the
\* allocator allows, never more than before.
shrink(c, n) == n .. c

\* A reserve that forgets the map.
reserve_values_only(c, vals, m, additional) ==
    { [values |-> v, map |-> c.map] :
        v \in reserve_more(c.values, Len(vals), additional) }

\* StringInterner::reserve: the capacities it may leave.
reserve(c, vals, m, additional) ==
    { [values |-> v, map |-> h] :
        v \in reserve_more(c.values, Len(vals), additional),
        h \in reserve_more(c.map, Cardinality(DOMAIN m), additional) }

\* StringInterner::shrink_to_fit: the capacities it may leave.
shrink_to_fit(c, vals, m) ==
    { [values |-> v, map |-> h] :
        v \in shrink(c.values, Len(vals)),
        h \in shrink(c.map, Cardinality(DOMAIN m)) }

\* StringInterner::capacity
capacity(c) == IF c.map <= c.values THEN c.map ELSE c.values

\* StringInterner::new: HashMap::new(), Vec::new().
new == {NoCapacity}

\* StringInterner::with_capacity: HashMap::with_capacity(cap),
\* Vec::with_capacity(cap).
with_capacity(n) ==
    { [values |-> v, map |-> h] : v \in AtLeast(n), h \in AtLeast(n) }

\* StringInterner::with_hasher: HashMap::with_hasher(hash_builder),
\* Vec::new().
with_hasher == {NoCapacity}

\* StringInterner::with_capacity_and_hasher:
\* HashMap::with_hasher(hash_builder), Vec::with_capacity(cap).
with_capacity_and_hasher(n) ==
    { [values |-> v, map |-> 0] : v \in AtLeast(n) }

\* The state after construction by one of the four constructors.
CapInit ==
    /\ variant \in Variants
    /\ build \in Builds
    /\ values = <<>>
    /\ map = <<>>
    /\ issued = {}
    /\ \E n \in 0 .. MaxReserve :
        \/ /\ cap \in new
           /\ last = [NoCall EXCEPT !.op = "new"]
        \/ /\ cap \in with_hasher
           /\ last = [NoCall EXCEPT !.op = "with_hasher"]
        \/ /\ cap \in with_capacity(n)
           /\ last = [NoCall EXCEPT !.op = "with_capacity", !.arg = n]
        \/ /\ cap \in with_capacity_and_hasher(n)
           /\ last = [NoCall EXCEPT !.op = "with_capacity_and_hasher",
                                    !.arg = n]
    /\ pc = "idle"
    /\ index = 0
    /\ symbol = None
    /\ back = None
    /\ other = NoOther
    /\ input = NoInput
    /\ iter = NoIter

\* StringInterner::get_or_intern, with the push and the insert growing the
\* capacities.
Grown ==
    cap' \in { [values |-> v, map |-> h] :
                v \in grow(cap.values, Len(values')),
                h \in grow(cap.map, Cardinality(DOMAIN map')) }

CapGetOrIntern(val) ==
    /\ InternCall(val)
    /\ Grown
    /\ UNCHANGED <<variant, build, symbolVars, other, input, iter>>

\* StringInterner::reserve
Reserve(additional) ==
    /\ cap' \in reserve(cap, values, map, additional)
    /\ last' = [NoCall EXCEPT !.op = "reserve", !.arg = additional]
    /\ UNCHANGED <<variant, build, values, map, issued, symbolVars,
                   other, input, iter>>

\* StringInterner::shrink_to_fit
ShrinkToFit ==
    /\ cap' \in shrink_to_fit(cap, values, map)
    /\ last' = [NoCall EXCEPT !.op = "shrink_to_fit"]
    /\ UNCHANGED <<variant, build, values, map, issued, symbolVars,
                   other, input, iter>>

CapNext ==
    \/ \E val \in FewTexts : CapGetOrIntern(val)
    \/ \E additional \in 0 .. MaxReserve : Reserve(additional)
    \/ ShrinkToFit

CapSpec == CapInit /\ [][CapNext]_vars

----------------------------------------------------------------------------
\* Two interners: the interner and a second one made from it by clone, or
\* by from_iter from its iter_values, each then interning on its own.  The
\* capacities of the first are tracked; history is not recorded.

PairTexts == 1 .. NumPairTexts

\* An extend that takes the items from the back.
RECURSIVE extend_reversed(_, _, _, _, _)
extend_reversed(S, b, vals, m, items) ==
    IF items = <<>>
    THEN [values |-> vals, map |-> m, panicked |-> FALSE]
    ELSE LET r == get_or_intern(S, b, vals, m, items[Len(items)])
         IN IF r.ret.panicked
            THEN [values |-> vals, map |-> m, panicked |-> TRUE]
            ELSE extend_reversed(S, b, r.values, r.map,
                                 SubSeq(items, 1, Len(items) - 1))

\* Extend::extend: get_or_intern of each item in order; a panic ends it
\* with the items before it interned.
RECURSIVE extend(_, _, _, _, _)
extend(S, b, vals, m, items) ==
    IF items = <<>>
    THEN [values |-> vals, map |-> m, panicked |-> FALSE]
    ELSE LET r == get_or_intern(S, b, vals, m, Head(items))
         IN IF r.ret.panicked
            THEN [values |-> vals, map |-> m, panicked |-> TRUE]
            ELSE extend(S, b, r.values, r.map, Tail(items))

\* FromIterator::from_iter: with_capacity(size_hint), then extend.
from_iter(S, b, items) == extend(S, b, <<>>, <<>>, items)

\* StringInterner::iter_values, run to its end: the texts in storage order.
iter_values(vals) == [i \in 1 .. Len(vals) |-> as_str(vals, i)]

\* A clone that numbers the cloned strings from one.
clone_enumerates_from_one(S, b, vals) ==
    LET syms == [p \in 1 .. Len(vals) |-> expect_valid_symbol(S, b, p)]
    IN IF \E p \in 1 .. Len(vals) : syms[p].panicked
       THEN [values |-> <<>>, map |-> <<>>, panicked |-> TRUE]
       ELSE [values |-> vals,
             map |-> [p \in 1 .. Len(vals) |-> syms[p].val],
             panicked |-> FALSE]

\* Clone::clone: the values cloned, and a map made anew from the cloned
\* boxes, box i with the symbol S::from_usize(i).
clone(S, b, vals) ==
    LET syms == [p \in 1 .. Len(vals) |-> expect_valid_symbol(S, b, p - 1)]
    IN IF \E p \in 1 .. Len(vals) : syms[p].panicked
       THEN [values |-> <<>>, map |-> <<>>, panicked |-> TRUE]
       ELSE [values |-> vals,
             map |-> [p \in 1 .. Len(vals) |-> syms[p].val],
             panicked |-> FALSE]

\* An eq that compares the lengths only.
eq_len_only(vals, rhs_vals) == Len(vals) = Len(rhs_vals)

\* PartialEq::eq: self.len() == rhs.len() && self.values == rhs.values.
eq(vals, rhs_vals) ==
    /\ Len(vals) = Len(rhs_vals)
    /\ vals = rhs_vals

\* The second interner as `made` leaves it.
Made(how, made) ==
    IF made.panicked
    THEN [NoOther EXCEPT !.state = "panicked"]
    ELSE [state |-> how, values |-> made.values, map |-> made.map,
          fresh |-> TRUE]

\* let other = interner.clone();
Clone ==
    /\ other' = Made("clone", clone(variant, build, values))
    /\ UNCHANGED <<variant, build, internerVars, symbolVars, cap, input, iter>>

\* let other = interner.iter_values().collect::<StringInterner<S>>();
Rebuild ==
    /\ other' = Made("from_iter",
                     from_iter(variant, build, iter_values(values)))
    /\ UNCHANGED <<variant, build, internerVars, symbolVars, cap, input, iter>>

\* interner.get_or_intern(val)
InternOriginal(val) ==
    LET r == get_or_intern(variant, build, values, map, val)
    IN /\ values' = r.values
       /\ map' = r.map
       /\ Grown
       /\ other' = [other EXCEPT !.fresh = FALSE]
       /\ UNCHANGED <<variant, build, issued, last, symbolVars, input, iter>>

\* other.get_or_intern(val)
InternOther(val) ==
    /\ other.state \in {"clone", "from_iter"}
    /\ LET r == get_or_intern(variant, build, other.values, other.map, val)
       IN other' = [other EXCEPT !.values = r.values, !.map = r.map,
                                 !.fresh = FALSE]
    /\ UNCHANGED <<variant, build, internerVars, symbolVars, cap, input, iter>>

\* interner.reserve(additional)
PairReserve(additional) ==
    /\ cap' \in reserve(cap, values, map, additional)
    /\ UNCHANGED <<variant, build, internerVars, symbolVars, other, input,
                   iter>>

\* interner.shrink_to_fit()
PairShrinkToFit ==
    /\ cap' \in shrink_to_fit(cap, values, map)
    /\ UNCHANGED <<variant, build, internerVars, symbolVars, other, input,
                   iter>>

PairNext ==
    \/ Clone
    \/ Rebuild
    \/ \E val \in PairTexts : InternOriginal(val)
    \/ \E val \in PairTexts : InternOther(val)
    \/ \E additional \in 0 .. MaxReserve : PairReserve(additional)
    \/ PairShrinkToFit

PairSpec == Init /\ [][PairNext]_vars

----------------------------------------------------------------------------
\* Bulk construction: the items of one input are interned one by one with
\* get_or_intern by the first interner, and in bulk, by from_iter and then
\* extend, by the second.

RECURSIVE SeqsUpTo(_, _)
SeqsUpTo(S, n) ==
    IF n = 0
    THEN {<<>>}
    ELSE LET shorter == SeqsUpTo(S, n - 1)
         IN shorter \cup { Append(q, x) : q \in shorter, x \in S }

\* A new interner and an input; nothing is interned yet.
BulkInit ==
    /\ variant \in Variants
    /\ build \in Builds
    /\ values = <<>>
    /\ map = <<>>
    /\ issued = {}
    /\ last = NoCall
    /\ pc = "idle"
    /\ index = 0
    /\ symbol = None
    /\ back = None
    /\ cap = NoCapacity
    /\ other = NoOther
    /\ input \in { [items |-> q, pos |-> 0, done |-> 0] :
                    q \in SeqsUpTo(FewTexts, MaxInput) }
    /\ iter = NoIter

\* interner.get_or_intern(item) for the next item; a panic ends the run.
BulkStep ==
    /\ input.pos < Len(input.items)
    /\ ~last.panicked
    /\ InternCall(input.items[input.pos + 1])
    /\ input' = [input EXCEPT !.pos = IF last'.panicked THEN @ ELSE @ + 1]
    /\ UNCHANGED <<variant, build, symbolVars, cap, other, iter>>

\* let other = items.take(k).collect::<StringInterner<S>>();
FromIter(k) ==
    /\ other.state = "none"
    /\ other' = Made("from_iter",
                     from_iter(variant, build, SubSeq(input.items, 1, k)))
    /\ input' = [input EXCEPT !.done = k]
    /\ UNCHANGED <<variant, build, internerVars, symbolVars, cap, iter>>

\* other.extend(the items up to the k-th); a panic leaves in `other` what
\* was interned before it.
Extend(k) ==
    /\ other.state = "from_iter"
    /\ k > input.done
    /\ LET r == extend(variant, build, other.values, other.map,
                       SubSeq(input.items, input.done + 1, k))
       IN other' = [state |-> IF r.panicked THEN "panicked" ELSE "from_iter",
                    values |-> r.values, map |-> r.map, fresh |-> FALSE]
    /\ input' = [input EXCEPT !.done = k]
    /\ UNCHANGED <<variant, build, internerVars, symbolVars, cap, iter>>

BulkNext ==
    \/ BulkStep
    \/ \E k \in 0 .. Len(input.items) : FromIter(k)
    \/ \E k \in 1 .. Len(input.items) : Extend(k)

BulkSpec == BulkInit /\ [][BulkNext]_vars

----------------------------------------------------------------------------
\* Iteration: Iter and Values borrow the interner, IntoIter owns its values.
\* `iter` is the live iterator: its kind, the position of the underlying
\* enumeration, and the items next has returned so far (history).

IterKinds == {"iter", "values", "into_iter"}

\* Iter::new, Values::new, IntoIterator::into_iter
iter_new(kind) ==
    [kind |-> kind, pos |-> 0, yielded |-> <<>>,
     ended |-> FALSE, panicked |-> FALSE]

\* Iter::next, Values::next, IntoIter::next: the next text of values, paired
\* with S::from_usize(num) except by Values.
iter_next(S, b, vals, it) ==
    IF it.pos >= Len(vals)
    THEN [it EXCEPT !.ended = TRUE]
    ELSE LET num == it.pos
             text == as_str(vals, num + 1)
             s == IF it.kind = "values"
                  THEN Returned(None)
                  ELSE LET r == expect_valid_symbol(S, b, num)
                       IN IF r.panicked THEN r ELSE Returned(Some(r.val))
         IN IF s.panicked
            THEN [it EXCEPT !.pos = num + 1, !.panicked = TRUE]
            ELSE [it EXCEPT !.pos = num + 1,
                            !.yielded = Append(@, [symbol |-> s.val,
                                                   text |-> text])]

\* get_or_intern while no iterator borrows or owns the values.
IterGetOrIntern(val) ==
    /\ iter.kind = "none"
    /\ InternCall(val)
    /\ UNCHANGED <<variant, build, symbolVars, extraVars>>

\* interner.iter(), interner.iter_values(), interner.into_iter()
IterNew(kind) ==
    /\ iter.kind = "none"
    /\ iter' = iter_new(kind)
    /\ UNCHANGED <<variant, build, internerVars, symbolVars, cap, other, input>>

\* it.next()
IterNext ==
    /\ iter.kind # "none"
    /\ ~iter.ended
    /\ ~iter.panicked
    /\ iter' = iter_next(variant, build, values, iter)
    /\ UNCHANGED <<variant, build, internerVars, symbolVars, cap, other, input>>

\* A borrowing iterator is dropped; the interner can be used again.
IterDrop ==
    /\ iter.kind \in {"iter", "values"}
    /\ iter' = NoIter
    /\ UNCHANGED <<variant, build, internerVars, symbolVars, cap, other, input>>

IterStep ==
    \/ \E val \in FewTexts : IterGetOrIntern(val)
    \/ \E kind \in IterKinds : IterNew(kind)
    \/ IterNext
    \/ IterDrop

IterSpec == Init /\ [][IterStep]_vars

----------------------------------------------------------------------------
\* Properties of the interner (checked under Spec)

\* The symbols get_or_intern has returned, and the texts it has returned
\* them for.
IssuedSymbols == { p[2] : p \in issued }
IssuedTexts == { p[1] : p \in issued }

\* The symbol of last.ret.
LastSymbol == unwrap(last.ret)

\* C1: any two texts that differ in content have been given different
\* symbols by get_or_intern.
Uniqueness ==
    \A p, q \in issued : p[1] # q[1] => p[2] # q[2]

\* C2: a get_or_intern(t) that directly follows a get_or_intern(t) returns
\* the same symbol, takes the hit path, and leaves values and map unchanged.
Idempotence ==
    [][(/\ last.op = "get_or_intern"
        /\ ~last.panicked
        /\ last'.op = "get_or_intern"
        /\ last'.arg = last.arg)
       => (/\ ~last'.panicked
           /\ last'.hit
           /\ last'.ret = last.ret
           /\ values' = values
           /\ map' = map)]_vars

\* C2 witness: the text interned last was passed again and found.
IdempotenceWitness ==
    /\ last.op = "get_or_intern"
    /\ last.hit
    /\ Len(values) >= 2
    /\ last.arg = values[Len(values)]

\* C3: right after s = get_or_intern(t), resolve(s) returns t.
RoundTrip ==
    (last.op = "get_or_intern" /\ ~last.panicked)
    => resolve(variant, build, values, LastSymbol) = Returned(Some(last.arg))

\* C4: on a miss the symbol returned has the index len() had before the
\* call, len() grows by one, and len() is the number of distinct texts
\* interned so far.
SequentialAssignment ==
    /\ Len(values) = Cardinality(IssuedTexts)
    /\ (last.op = "get_or_intern" /\ ~last.panicked /\ ~last.hit)
       => to_usize(variant, build, LastSymbol) = Returned(Len(values) - 1)

\* C5: once get_or_intern has returned s for t, resolve(s) returns t in
\* every later state.
Stability ==
    \A p \in issued :
        resolve(variant, build, values, p[2]) = Returned(Some(p[1]))

\* C6: get(t) returns the symbol get_or_intern returned for t, or none if
\* t was never interned, and leaves values and map unchanged.
GetIsPureLookup ==
    [][last'.op = "get"
       => (/\ last'.ret = { p[2] : p \in { q \in issued : q[1] = last'.arg } }
           /\ values' = values
           /\ map' = map)]_vars

\* C7: resolve(s) returns none for a symbol this interner never issued, and
\* returns a text exactly when the index of s is below len().
ResolveNotFound ==
    last.op = "resolve"
    => (/\ ~last.panicked
        /\ last.arg \notin IssuedSymbols => last.ret = None
        /\ last.ret # None
           <=> to_usize(variant, build, last.arg).val < Len(values))

\* C7 witness: a symbol that was never issued is resolved by an interner
\* that holds texts, and nothing is found.
ResolveNotFoundWitness ==
    /\ last.op = "resolve"
    /\ Len(values) >= 2
    /\ last.arg \notin IssuedSymbols
    /\ last.ret = None

\* C10: a get_or_intern of a new text when len() equals the number of
\* indices the symbol type can represent panics and leaves values and map
\* unchanged.
ExhaustionAborts ==
    [][(/\ last'.op = "get_or_intern"
        /\ ~last'.hit
        /\ Len(values) = BaseMax(variant))
       => (/\ last'.panicked
           /\ values' = values
           /\ map' = map)]_vars

\* C19: the map has exactly len() entries, its keys are the texts of the
\* storage sequence, which holds no text twice, and it maps the text at
\* position i to the symbol with index i.
IndexStorageCorrespondence ==
    /\ Cardinality(DOMAIN map) = Len(values)
    /\ { as_str(values, p) : p \in DOMAIN map }
       = { values[i] : i \in 1 .. Len(values) }
    /\ \A i, j \in 1 .. Len(values) : i # j => values[i] # values[j]
    /\ \A i \in 1 .. Len(values) :
        \E s \in map_get(map, values, values[i]) :
            to_usize(variant, build, s) = Returned(i - 1)


----------------------------------------------------------------------------
\* Properties of capacity management (checked under CapSpec)

CapacityOps == {"reserve", "shrink_to_fit"}

\* C13: reserve and shrink_to_fit leave len(), every resolve(s) and every
\* get(t) unchanged, and the get_or_intern of a new text that follows one
\* of them returns the symbol with index len().
CapacityOpsKeepContent ==
    [][/\ last'.op \in CapacityOps
          => (/\ Len(values') = Len(values)
              /\ \A s \in Held :
                    resolve(variant, build, values', s)
                    = resolve(variant, build, values, s)
              /\ \A t \in FewTexts :
                    get(map', values', t) = get(map, values, t))
       /\ (/\ last.op \in CapacityOps
           /\ last'.op = "get_or_intern"
           /\ ~last'.hit
           /\ ~last'.panicked)
          => to_usize(variant, build, unwrap(last'.ret))
             = Returned(Len(values))]_vars

\* C14: right after with_capacity(cap) or with_capacity_and_hasher(cap, h),
\* values and map both have capacity at least cap, so capacity() >= cap.
PresizedCapacity ==
    last.op \in {"with_capacity", "with_capacity_and_hasher"}
    => (/\ cap.values >= last.arg
        /\ cap.map >= last.arg
        /\ capacity(cap) >= last.arg)

\* C15: after reserve(additional), capacity() >= len() + additional, and
\* capacity() exceeds the capacity of neither values nor map.
ReservePostcondition ==
    last.op = "reserve"
    => (/\ capacity(cap) >= Len(values) + last.arg
        /\ capacity(cap) <= cap.values
        /\ capacity(cap) <= cap.map)

\* C15 witness: reserve(additional) with additional > 0 on an interner that
\* holds texts and had to grow.
ReservePostconditionWitness ==
    /\ last.op = "reserve"
    /\ last.arg >= 1
    /\ Len(values) >= 2
    /\ capacity(cap) = Len(values) + last.arg

----------------------------------------------------------------------------
\* Properties of two interners (checked under PairSpec)

\* The symbols a caller can hold for two interners: made by try_from_usize
\* or stored in either map.
PairSymbols ==
    Symbols[variant, build]
    \cup { map[p] : p \in DOMAIN map }
    \cup { other.map[p] : p \in DOMAIN other.map }

\* resolve(s) and get(t) return in the second interner, as the next state
\* has it, what they return in the first.
SameContent(vals, m, o) ==
    /\ Len(o.values) = Len(vals)
    /\ \A s \in PairSymbols :
        resolve(variant, build, o.values, s) = resolve(variant, build, vals, s)
    /\ \A t \in PairTexts :
        get(o.map, o.values, t) = get(m, vals, t)

\* C11: a clone has the len(), the resolve(s) and the get(t) of the
\* interner it was cloned from; get_or_intern on either of the two then
\* leaves the other as it was.
CloneFidelityAndIndependence ==
    [][/\ other'.state # "panicked"
       /\ (other'.state = "clone" /\ other'.fresh)
          => SameContent(values', map', other')
       /\ (other'.values # other.values \/ other'.map # other.map)
          => (values' = values /\ map' = map)
       /\ (values' # values \/ map' # map)
          => (other'.values = other.values /\ other'.map = other.map)]_vars

\* C11 witness: the clone of an interner that holds a text has interned a
\* text the interner does not hold.
CloneWitness ==
    /\ other.state = "clone"
    /\ ~other.fresh
    /\ Len(values) >= 1
    /\ Len(other.values) > Len(values)
    /\ values[1] = other.values[1]

\* C12: two interners are equal exactly if they hold the same number of
\* texts and the same text at every index, whatever their capacities.
Equality ==
    other.state \in {"clone", "from_iter"}
    => (eq(values, other.values)
        <=> (/\ Len(values) = Len(other.values)
             /\ \A i \in 1 .. Len(values) : values[i] = other.values[i]))

\* C12 witness: two equal interners, the first with capacity to spare for
\* values and for map, the second made before the texts were interned.
EqualityWitness ==
    /\ other.state \in {"clone", "from_iter"}
    /\ ~other.fresh
    /\ Len(values) >= 2
    /\ eq(values, other.values)
    /\ cap.values > Len(values)
    /\ cap.map > Len(values)

\* C18: the interner built by from_iter from the iter_values of an interner
\* is equal to it, resolves every symbol to the same text and maps every
\* text to the same symbol.
PersistedRoundTrip ==
    /\ other.state # "panicked"
    /\ (other.state = "from_iter" /\ other.fresh)
       => (/\ eq(values, other.values)
           /\ SameContent(values, map, other)
           /\ \A t \in PairTexts :
                map_get(other.map, other.values, t) = map_get(map, values, t))

\* C18 witness: an interner that holds texts has been rebuilt.
PersistedRoundTripWitness ==
    /\ other.state = "from_iter"
    /\ other.fresh
    /\ Len(values) >= 2

----------------------------------------------------------------------------
\* Properties of bulk construction (checked under BulkSpec)

\* C16: the interner that from_iter and extend build from the first k items
\* is equal to, and maps every text to the same symbol as, the interner
\* that get_or_intern was called on for each of these items in order; one
\* panics exactly if the other does; extend keeps every earlier entry.
BulkEqualsRepeated ==
    [][/\ (other'.state = "from_iter" /\ input'.done = input'.pos)
          => (/\ eq(values', other'.values)
              /\ \A t \in FewTexts :
                    map_get(other'.map, other'.values, t)
                    = map_get(map', values', t))
       /\ other'.state = "panicked" => input'.pos < input'.done
       /\ (last'.panicked /\ other'.state # "none"
                          /\ input'.done > input'.pos)
          => other'.state = "panicked"
       /\ (other.state = "from_iter" /\ other'.state = "from_iter")
          => \A p \in DOMAIN other.map :
                /\ other'.values[p] = other.values[p]
                /\ other'.map[p] = other.map[p]]_vars

\* C16 witness: an input with a repeated text has been interned item by
\* item by one interner, and by from_iter and then extend by the other.
BulkWitness ==
    /\ other.state = "from_iter"
    /\ ~other.fresh
    /\ Len(other.values) >= 2
    /\ input.done = Len(input.items)
    /\ input.pos = Len(input.items)
    /\ Len(values) < Len(input.items)

----------------------------------------------------------------------------
\* Properties of iteration (checked under IterSpec)

\* C17: an iterator yields the texts of the interner in storage order, the
\* i-th (from 0) paired, except by the values-only iterator, with the
\* symbol whose index is i and that resolves to this text; it ends after
\* len() items, without a panic; the borrowing iterators leave the interner
\* as it is.
Iteration ==
    /\ ~iter.panicked
    /\ iter.ended => Len(iter.yielded) = len(values)
    /\ \A i \in 1 .. Len(iter.yielded) :
          LET y == iter.yielded[i]
          IN /\ y.text = as_str(values, i)
             /\ iter.kind # "values"
                => \E s \in y.symbol :
                      /\ to_usize(variant, build, s) = Returned(i - 1)
                      /\ resolve(variant, build, values, s)
                         = Returned(Some(y.text))

----------------------------------------------------------------------------
\* Properties of the symbol encodings (checked under SymSpec)

\* C8: to_usize of the symbol try_from_usize(i) returned is i.
SymbolRoundTrip ==
    (pc \in {"done", "panicked"} /\ symbol # None) => back = Some(index)

\* C9: try_from_usize(i) returns no value for every i at or beyond the
\* maximum of the base type, and a symbol for every smaller i.
SymbolRangeCheck ==
    pc # "start"
    => (/\ index >= BaseMax(variant) => (pc = "converted" /\ symbol = None)
        /\ index < BaseMax(variant) => symbol # None)

\* C20: a symbol returned by try_from_usize(i) stores i + 1 within the
\* width of its base type, so its stored value is never zero.
ZeroSentinel ==
    (pc # "start" /\ symbol # None)
    => (/\ unwrap(symbol) = index + 1
        /\ unwrap(symbol) <= BaseMax(variant)
        /\ unwrap(symbol) # 0)

====
